---- MODULE Spec2Model ----
(***************************************************************************)
(* Web3Service (src/src/index.ts): call / transaction / getReceipt and the *)
(* revert-reason recovery pipeline getRevertReason, as a state machine.    *)
(*                                                                         *)
(* JavaScript strings are modelled as sequences of character codes, so     *)
(* that the regular expression, toLowerCase, slicing and hex/UTF-8         *)
(* decoding are computed and not assumed.  An asynchronous function is cut *)
(* at its awaits: one step runs from a resumption to the next suspension.  *)
(* Provider operations that were issued sit in `outstanding` until the     *)
(* node answers; answered operations sit in `ready` until the event loop   *)
(* dispatches them, which it only does while no synchronous code runs.     *)
(***************************************************************************)
EXTENDS Integers, Sequences, FiniteSets, TLC

(***************************************************************************)
(* Bounds of the model                                                     *)
(***************************************************************************)
\* transaction() is not called once pendingTransactions has this many entries
MaxPending == 2
\* longest revert string handed to decodeMessage on its own
MaxStrLen == 2
\* highest chain height the provider reports
MaxHeight == 131

(***************************************************************************)
(* Program constants                                                       *)
(***************************************************************************)
HashHexLen == 64
ArchiveWindow == 128
infuraErrCode == 0 - 32002
fnSelectorByteLength == 4
dataOffsetByteLength == 32
strLengthByteLength == 32
ParityPrefixLen == 9

(***************************************************************************)
(* Strings as sequences of character codes                                 *)
(***************************************************************************)
Rep(c, n) == [i \in 1..n |-> c]

S_0x == <<48, 120>>
S_mainnet == <<109, 97, 105, 110, 110, 101, 116>>
S_kovan == <<107, 111, 118, 97, 110>>
S_goerli == <<103, 111, 101, 114, 108, 105>>
S_ropsten == <<114, 111, 112, 115, 116, 101, 110>>
S_rinkeby == <<114, 105, 110, 107, 101, 98, 121>>
S_KOVAN == <<75, 79, 86, 65, 78>>
S_Ropsten == <<82, 111, 112, 115, 116, 101, 110>>
S_polygon == <<112, 111, 108, 121, 103, 111, 110>>
\* "Reverted " : the prefix Parity puts before the revert data
S_Reverted == <<82, 101, 118, 101, 114, 116, 101, 100, 32>>

\* String.prototype.toLowerCase on the characters the model uses
LowerChar(c) == IF c >= 65 /\ c <= 90 THEN c + 32 ELSE c
toLowerCase(s) == [i \in 1..Len(s) |-> LowerChar(s[i])]

\* String.prototype.substr(from) / slice(from) with from >= 0
substr(s, from) == IF from >= Len(s) THEN << >> ELSE SubSeq(s, from + 1, Len(s))
\* String.prototype.slice(from, to), 0 <= from; a `to` below `from` gives ""
slice(s, from, to) ==
  LET e == IF to > Len(s) THEN Len(s) ELSE to
  IN IF e <= from THEN << >> ELSE SubSeq(s, from + 1, e)

\* [A-Fa-f0-9]
IsHexChar(c) == \/ (c >= 48 /\ c <= 57)
                \/ (c >= 65 /\ c <= 70)
                \/ (c >= 97 /\ c <= 102)
HexVal(c) == IF c <= 57 THEN c - 48 ELSE IF c <= 70 THEN c - 55 ELSE c - 87
HexDigit(v) == IF v < 10 THEN 48 + v ELSE 87 + v

(***************************************************************************)
(* Pre-provider validation (pure part)                                     *)
(***************************************************************************)
\* the pattern without its end anchor
HashRegexTest_unanchored(txHash) ==
  /\ Len(txHash) >= 2 + HashHexLen
  /\ txHash[1] = 48
  /\ txHash[2] = 120
  /\ \A i \in 3..(2 + HashHexLen) : IsHexChar(txHash[i])
\* /^0x([A-Fa-f0-9]{64})$/.test(txHash)
HashRegexTest(txHash) ==
  /\ Len(txHash) = 2 + HashHexLen
  /\ txHash[1] = 48
  /\ txHash[2] = 120
  /\ \A i \in 3..(2 + HashHexLen) : IsHexChar(txHash[i])

networks == <<S_mainnet, S_kovan, S_goerli, S_ropsten, S_rinkeby>>
includes(list, x) == \E i \in 1..Len(list) : list[i] = x

\* the message of the Error thrown, "ok" when nothing is thrown
validateInputPreProvider(txHash, network) ==
  IF \/ ~HashRegexTest(txHash)
     \/ slice(txHash, 0, 2) # S_0x
  THEN "Invalid transaction hash"
  ELSE IF ~includes(networks, network)
  THEN "Not a valid network"
  ELSE "ok"

\* the error kind of the specification an Error message of the code stands for;
\* an error of the provider or of the runtime is its own kind
ErrorKind(message) ==
  CASE message = "Invalid transaction hash" -> "InvalidInputError"
    [] message = "Not a valid network" -> "InvalidInputError"
    [] message =
         "Please use a provider that exposes the Parity trace methods to decode the revert reason."
         -> "UnsupportedProviderError"
    [] message = "You cannot use a blocknumber that has not yet happened." ->
         "FutureBlockError"
    [] message =
         "You cannot use a blocknumber that is older than 128 blocks. Please use a provider that uses a full archival node."
         -> "ArchiveRequiredError"
    [] message = "Unable to decode revert reason." -> "DecodeFailure"
    [] message = "No ABI found" -> "NotFoundError"
    [] message = "No outputs in ABI" -> "SchemaError"
    [] OTHER -> message

\* blockNumber values: the absent argument, a block tag, or a numeral
BlkUndefined == [tag |-> "undefined", n |-> 0]
BlkLatest == [tag |-> "latest", n |-> 0]
BlkEarliest == [tag |-> "earliest", n |-> 0]
BlkNum(n) == [tag |-> "num", n |-> n]

\* the network taken as it was passed
normalizeInput_asis(network, blockNumber) ==
  [network |-> network,
   blockNumber |-> IF blockNumber.tag = "undefined" THEN BlkLatest ELSE blockNumber]
normalizeInput(network, blockNumber) ==
  [network |-> toLowerCase(network),
   blockNumber |-> IF blockNumber.tag = "undefined" THEN BlkLatest ELSE blockNumber]

\* ethers.getDefaultProvider(network): the provider of the named network
getProvider(network) == network

(***************************************************************************)
(* Decoding of the replayed return bytes                                   *)
(***************************************************************************)
\* the value of parseInt for "not a number"
NaN == 0 - 1
\* parseInt yields a double; every value from here on is past the end of any
\* payload of the model, and is reported as this one
HugeInt == 16 ^ 4

\* the number of leading hex digits of s
HexPrefixLen(s) ==
  IF \A i \in 1..Len(s) : IsHexChar(s[i]) THEN Len(s)
  ELSE (CHOOSE i \in 1..Len(s) :
          /\ ~IsHexChar(s[i])
          /\ \A j \in 1..(i - 1) : IsHexChar(s[j])) - 1

\* parseInt(`0x${hex}`, 16): the value of the longest prefix of hex digits
parseIntHex(hex) ==
  LET p == HexPrefixLen(hex)
      low == IF p > 4 THEN p - 3 ELSE 1
      digit(i) == IF i >= 1 THEN HexVal(hex[i]) ELSE 0
  IN IF p = 0 THEN NaN
     ELSE IF \E i \in 1..(low - 1) : HexVal(hex[i]) # 0 THEN HugeInt
     ELSE digit(p) + 16 * digit(p - 1) + 256 * digit(p - 2) + 4096 * digit(p - 3)

\* no stripping at all
StripTrailingZeros_none(s) == s
\* String.prototype.replace(/0+$/, "")
StripTrailingZeros(s) ==
  IF \A i \in 1..Len(s) : s[i] = 48 THEN << >>
  ELSE SubSeq(s, 1, CHOOSE k \in 1..Len(s) :
                      /\ s[k] # 48
                      /\ \A j \in (k + 1)..Len(s) : s[j] = 48)

\* a decoding result: ok = FALSE stands for a thrown exception
DecOk(str) == [ok |-> TRUE, s |-> str]
DecThrow == [ok |-> FALSE, s |-> << >>]

RECURSIVE Utf8Continuation(_, _, _, _)
\* folds `extra` continuation bytes from position i into res; NaN when one is missing
Utf8Continuation(bytes, i, extra, res) ==
  IF extra = 0 THEN res
  ELSE IF bytes[i] \div 64 # 2 THEN NaN
  ELSE Utf8Continuation(bytes, i + 1, extra - 1, res * 64 + (bytes[i] % 64))

RECURSIVE Utf8CodePoints(_, _, _)
\* ethers getUtf8CodePoints with the default (throwing) error policy
Utf8CodePoints(bytes, i, acc) ==
  IF i > Len(bytes) THEN DecOk(acc)
  ELSE LET c == bytes[i]
           extra == IF c \div 32 = 6 THEN 1
                    ELSE IF c \div 16 = 14 THEN 2
                    ELSE IF c \div 8 = 30 THEN 3 ELSE 0
           overlongMask == IF extra = 1 THEN 127 ELSE IF extra = 2 THEN 2047 ELSE 65535
           lead == IF extra = 1 THEN c % 32 ELSE IF extra = 2 THEN c % 16 ELSE c % 8
       IN IF c < 128 THEN Utf8CodePoints(bytes, i + 1, Append(acc, c))
          ELSE IF extra = 0 THEN DecThrow
          ELSE IF i + extra > Len(bytes) THEN DecThrow
          ELSE LET res == Utf8Continuation(bytes, i + 1, extra, lead)
               IN IF res = NaN THEN DecThrow
                  ELSE IF res > 1114111 THEN DecThrow
                  ELSE IF res >= 55296 /\ res <= 57343 THEN DecThrow
                  ELSE IF res <= overlongMask THEN DecThrow
                  ELSE Utf8CodePoints(bytes, i + 1 + extra, Append(acc, res))

\* what ethers arrayify throws for a hex string, "" when it throws nothing
arrayifyError(codeString) ==
  IF \/ Len(codeString) < 2
     \/ SubSeq(codeString, 1, 2) # S_0x
     \/ \E i \in 3..Len(codeString) : ~IsHexChar(codeString[i])
  THEN "invalid arrayify value"
  ELSE IF Len(codeString) % 2 = 1 THEN "hex data is odd-length"
  ELSE ""

\* ethers.utils.toUtf8String(hexString): arrayify, then UTF-8 decoding
toUtf8String(codeString) ==
  IF arrayifyError(codeString) # ""
  THEN DecThrow
  ELSE LET n == (Len(codeString) - 2) \div 2
           bytes == [k \in 1..n |-> 16 * HexVal(codeString[2 * k + 1])
                                    + HexVal(codeString[2 * k + 2])]
       IN Utf8CodePoints(bytes, 1, << >>)

strLengthStartPos == 2 + (fnSelectorByteLength + dataOffsetByteLength) * 2
strDataStartPos ==
  2 + (fnSelectorByteLength + dataOffsetByteLength + strLengthByteLength) * 2

\* the kovan branch taken like the other one, without reading the length
codeStringOf_strip(code, network) == StripTrailingZeros(S_0x \o substr(code, 138))
\* the hex string handed to the UTF-8 decoder, before the odd-length padding
codeStringOf(code, network) ==
  IF network = S_kovan
  THEN LET strLengthHex == slice(substr(code, strLengthStartPos), 0, strLengthByteLength * 2)
           strLengthInt == parseIntHex(strLengthHex)
           strDataEndPos == IF strLengthInt = NaN THEN 0
                            ELSE strDataStartPos + strLengthInt * 2
       IN S_0x \o slice(code, strDataStartPos, strDataEndPos)
  ELSE StripTrailingZeros(S_0x \o substr(code, 138))

\* no padding
padOdd_none(codeString) == codeString
padOdd(codeString) ==
  IF Len(codeString) % 2 = 1 THEN Append(codeString, 48) ELSE codeString

decodeMessage(code, network) == toUtf8String(padOdd(codeStringOf(code, network)))

(***************************************************************************)
(* The payloads a node can return: the Error(string) revert encoding       *)
(***************************************************************************)
\* n as a 32-byte big-endian word in hex, n < 16^7
HexWord(n) ==
  [i \in 1..64 |-> IF i <= 57 THEN 48
                   ELSE HexDigit((n \div (16 ^ (64 - i))) % 16)]
HexBytes(bytes) ==
  [i \in 1..(2 * Len(bytes)) |->
      IF i % 2 = 1 THEN HexDigit(bytes[(i + 1) \div 2] \div 16)
                   ELSE HexDigit(bytes[i \div 2] % 16)]
\* 08c379a0
S_selector == <<48, 56, 99, 51, 55, 57, 97, 48>>
\* selector, offset 0x20, length, data right-padded with zero bytes to 32
ErrorStringPayload(bytes) ==
  LET padded == ((Len(bytes) + 31) \div 32) * 32
  IN S_0x \o S_selector \o HexWord(32) \o HexWord(Len(bytes))
       \o HexBytes(bytes) \o Rep(48, 2 * (padded - Len(bytes)))

(***************************************************************************)
(* Method registry and call encoding                                       *)
(***************************************************************************)
\* src/src/abi/simple.abi.ts; outputs = [defined, number of declared outputs]
SimpleAbi ==
  << [name |-> "getCalls", inputs |-> 0, outputs |-> [defined |-> TRUE, n |-> 1]],
     [name |-> "testNumber", inputs |-> 1, outputs |-> [defined |-> TRUE, n |-> 0]] >>
NoAbiItem == [name |-> "", inputs |-> 0, outputs |-> [defined |-> FALSE, n |-> 0]]
\* an ABI whose only entry leaves the optional outputs field out
NoOutputsAbi ==
  << [name |-> "ping", inputs |-> 0, outputs |-> [defined |-> FALSE, n |-> 0]] >>

\* Array.prototype.find, then the throw of "No ABI found" when nothing is found
findInABI(name, abi) ==
  IF \E i \in 1..Len(abi) : abi[i].name = name
  THEN [found |-> TRUE,
        item |-> abi[CHOOSE i \in 1..Len(abi) :
                       /\ abi[i].name = name
                       /\ \A j \in 1..(i - 1) : abi[j].name # name]]
  ELSE [found |-> FALSE, item |-> NoAbiItem]

\* the entry is looked up whatever the arguments are
encodeMethod_lookup(method, args) ==
  LET r == findInABI(method.name, method.abi)
  IN IF r.found THEN [ok |-> TRUE, selector |-> r.item.name, args |-> args, lookups |-> 1]
     ELSE [ok |-> FALSE, selector |-> "", args |-> << >>, lookups |-> 1]
\* lookups counts the calls of findInABI
encodeMethod(method, args) ==
  IF Len(args) = 0
  THEN [ok |-> TRUE, selector |-> method.signature, args |-> << >>, lookups |-> 0]
  ELSE LET r == findInABI(method.name, method.abi)
       IN IF r.found THEN [ok |-> TRUE, selector |-> r.item.name, args |-> args, lookups |-> 1]
          ELSE [ok |-> FALSE, selector |-> "", args |-> << >>, lookups |-> 1]

\* a decoded result object, or the exception decoding ended with
Decoded(values) == [ok |-> TRUE, message |-> "", values |-> values]
DecodeThrows(message) == [ok |-> FALSE, message |-> message, values |-> << >>]

\* web3Instance.eth.abi.decodeParameters(outputs, bytes) for n outputs of type
\* uint256: one 32-byte word each
decodeParameters(n, bytes) ==
  IF n > 0 /\ bytes = S_0x THEN DecodeThrows("Returned values aren't valid")
  ELSE IF arrayifyError(bytes) # "" THEN DecodeThrows("invalid arrayify value")
  ELSE IF Len(bytes) < 2 + 64 * n THEN DecodeThrows("insufficient data")
  ELSE Decoded([k \in 1..n |-> parseIntHex(SubSeq(bytes, 64 * k - 61, 64 * k + 2))])

\* lookups and decodes count the calls of findInABI and of decodeParameters
decodeOutput(method, output) ==
  LET AbiItem == findInABI(method.name, method.abi)
  IN IF ~AbiItem.found
     THEN [result |-> DecodeThrows("No ABI found"), lookups |-> 1, decodes |-> 0]
     ELSE IF ~AbiItem.item.outputs.defined
     THEN [result |-> DecodeThrows("No outputs in ABI"), lookups |-> 1, decodes |-> 0]
     ELSE [result |-> decodeParameters(AbiItem.item.outputs.n, output),
           lookups |-> 1, decodes |-> 1]

(***************************************************************************)
(* Inputs of the operations                                                *)
(***************************************************************************)
ValidHashA == S_0x \o Rep(97, HashHexLen)
ValidHashB == S_0x \o [i \in 1..HashHexLen |-> IF i % 2 = 1 THEN 70 ELSE 57]
Hashes == {ValidHashA, ValidHashB}
TxHashInputs ==
  Hashes \cup
  { S_0x \o Rep(97, HashHexLen - 1),
    S_0x \o Rep(97, HashHexLen + 1),
    Rep(97, HashHexLen),
    Rep(97, HashHexLen + 2),
    <<48, 88>> \o Rep(97, HashHexLen),
    S_0x \o Rep(97, HashHexLen - 1) \o <<103>>,
    S_0x \o <<32>> \o Rep(97, HashHexLen - 1),
    S_0x \o Rep(97, HashHexLen) \o <<10>>,
    << >> }
NetworkInputs ==
  { S_mainnet, S_kovan, S_goerli, S_ropsten, S_rinkeby,
    S_KOVAN, S_Ropsten, S_polygon, << >> }
Heights == {MaxHeight - 1, MaxHeight}
BlockNumbers ==
  { MaxHeight - ArchiveWindow - 2, MaxHeight - ArchiveWindow - 1,
    MaxHeight - ArchiveWindow, MaxHeight - 1, MaxHeight, MaxHeight + 1 }
BlockInputs ==
  {BlkUndefined, BlkLatest, BlkEarliest} \cup {BlkNum(n) : n \in BlockNumbers}
Methods ==
  { [name |-> "getCalls", signature |-> "getCalls()", abi |-> SimpleAbi],
    [name |-> "testNumber", signature |-> "testNumber(uint256)", abi |-> SimpleAbi],
    [name |-> "removeMe", signature |-> "removeMe()", abi |-> SimpleAbi],
    [name |-> "ping", signature |-> "ping()", abi |-> NoOutputsAbi] }
NoMethod == [name |-> "", signature |-> "", abi |-> << >>]
ArgLists == { << >>, <<7>> }
\* the chains a client can be bound to
BoundNetworks == {S_mainnet, S_ropsten, S_kovan}

\* revert strings: "hi", "O0" (its last hex digit is 0), and a lone UTF-8 lead byte
ReplayPayloads ==
  { ErrorStringPayload(<<104, 105>>),
    ErrorStringPayload(<<79, 48>>),
    ErrorStringPayload(<<195>>),
    S_0x }
\* what eth.call returns: no data, the word 5, a single byte
CallReturns == { S_0x, S_0x \o HexWord(5), S_0x \o <<48, 49>> }

(***************************************************************************)
(* State                                                                   *)
(***************************************************************************)
VARIABLES
  pendingTransactions,  \* Web3Service.pendingTransactions
  pc,                   \* where the running operation is suspended
  op,                   \* the public operation that is running
  outcome,              \* how the operation ended
  outstanding,          \* provider operations issued and not yet answered
  ready,                \* answered operations the event loop has not dispatched
  resultHash,           \* local of transaction()
  txId,                 \* argument of getReceipt
  receipt,              \* local of getReceipt
  rr,                   \* activation frame of getRevertReason
  rrLog,                \* provider operations getRevertReason issued, in order
  trial,                \* the promise of the un-awaited getCode of the kovan probe
  unhandled,            \* an exception reached the host outside every try/catch
  minedOn,              \* the chain web3Instance is bound to
  frame,                \* arguments and locals of call() and transaction()
  dec                   \* the arguments, locals and result of a decodeMessage call

vars == << pendingTransactions, pc, op, outcome, outstanding, ready, resultHash,
           txId, receipt, rr, rrLog, trial, unhandled, minedOn, frame, dec >>

\* no decodeMessage call is being observed on its own
NoDec ==
  [phase |-> "off", text |-> << >>, layout |-> "", network |-> << >>, code |-> << >>,
   codeString |-> << >>, handed |-> << >>, err |-> "", result |-> DecThrow]

\* value tells what call() returned: "null", or "decoded" with the decoded values
NoOutcome ==
  [kind |-> "none", error |-> "", message |-> "", hash |-> << >>,
   hasReason |-> FALSE, reason |-> << >>, status |-> FALSE,
   value |-> "none", values |-> << >>]
Throws(message) ==
  [NoOutcome EXCEPT !.kind = "throw", !.error = ErrorKind(message), !.message = message]
ReturnsString(str) == [NoOutcome EXCEPT !.kind = "return", !.hasReason = TRUE, !.reason = str]
ReturnsHash(h) == [NoOutcome EXCEPT !.kind = "return", !.hash = h]
ReturnsReceipt(st, has, str) ==
  [NoOutcome EXCEPT !.kind = "return", !.status = st, !.hasReason = has, !.reason = str]

ReturnsNull == [NoOutcome EXCEPT !.kind = "return", !.value = "null"]
ReturnsDecoded(values) ==
  [NoOutcome EXCEPT !.kind = "return", !.value = "decoded", !.values = values]

NoResultHash == [set |-> FALSE, hash |-> << >>]
\* data is what encodeMethod returned, result the raw return of eth.call; lookups,
\* outLookups and decodes count the calls of findInABI by encodeMethod, of
\* findInABI by decodeOutput and of decodeParameters; issued tells whether the
\* operation has issued a provider operation, repolled whether getReceipt has
\* taken the continue of line 86
NoFrame ==
  [method |-> NoMethod, args |-> << >>, encoded |-> FALSE, data |-> "", lookups |-> 0,
   hasResult |-> FALSE, result |-> << >>, outLookups |-> 0, decodes |-> 0,
   issued |-> FALSE, repolled |-> FALSE]
NoReceipt == [present |-> FALSE, status |-> FALSE, transactionHash |-> << >>]
\* networkArg is the network argument as passed, before line 145 overwrites it;
\* caught is the err of the catch of line 160, errCode the one of line 230
NoRR == [active |-> FALSE, txHash |-> << >>, networkArg |-> << >>, network |-> << >>,
         blockNumber |-> BlkLatest, provider |-> << >>, currentBlockNumber |-> NaN,
         errCode |-> 0, tx |-> "none", code |-> << >>, caught |-> ""]

\* a provider operation and an answer to it
Op(kind, owner, net, tx, block) ==
  [kind |-> kind, owner |-> owner, net |-> net, tx |-> tx, block |-> block]
Ans(t, n, s, flag) == [t |-> t, n |-> n, s |-> s, flag |-> flag]

Cur ==
  [pendingTransactions |-> pendingTransactions, pc |-> pc, op |-> op,
   outcome |-> outcome, outstanding |-> outstanding, ready |-> ready,
   resultHash |-> resultHash, txId |-> txId, receipt |-> receipt, rr |-> rr,
   rrLog |-> rrLog, trial |-> trial, unhandled |-> unhandled, frame |-> frame]

\* N is evaluated once
Apply(N) ==
  \E n \in {N} :
    /\ pendingTransactions' = n.pendingTransactions
    /\ pc' = n.pc
    /\ op' = n.op
    /\ outcome' = n.outcome
    /\ outstanding' = n.outstanding
    /\ ready' = n.ready
    /\ resultHash' = n.resultHash
    /\ txId' = n.txId
    /\ receipt' = n.receipt
    /\ rr' = n.rr
    /\ rrLog' = n.rrLog
    /\ trial' = n.trial
    /\ unhandled' = n.unhandled
    /\ frame' = n.frame
    /\ UNCHANGED << minedOn, dec >>

\* the state in which a public operation is entered
Fresh(name) ==
  [Cur EXCEPT !.op = name, !.outcome = NoOutcome, !.resultHash = NoResultHash,
              !.txId = << >>, !.receipt = NoReceipt, !.rr = NoRR, !.rrLog = << >>,
              !.trial = "none", !.unhandled = FALSE, !.frame = NoFrame]

End(F, o) == [F EXCEPT !.pc = "done", !.outcome = o]
\* an awaited operation of web3Instance
Await(F, o, at) ==
  [F EXCEPT !.outstanding = @ \cup {o}, !.pc = at, !.frame.issued = TRUE]
\* an awaited operation of the ethers provider of getRevertReason
AwaitRR(F, o, at) ==
  [F EXCEPT !.outstanding = @ \cup {o}, !.pc = at, !.frame.issued = TRUE,
            !.rrLog = Append(@, [kind |-> o.kind, owner |-> o.owner])]

(***************************************************************************)
(* getReceipt, second half, and the two ways getRevertReason ends          *)
(***************************************************************************)
\* only the first entry equal to id is removed
filterPending_first(list, id) ==
  IF \E i \in 1..Len(list) : list[i] = id
  THEN LET k == CHOOSE i \in 1..Len(list) :
                  list[i] = id /\ \A j \in 1..(i - 1) : list[j] # id
       IN SubSeq(list, 1, k - 1) \o SubSeq(list, k + 1, Len(list))
  ELSE list
\* pendingTransactions.filter((tx) => tx !== txId)
filterPending(list, id) == SelectSeq(list, LAMBDA tx : tx # id)

\* lines 94-97: prune, then return {...receipt, revertReason}
getReceipt_Finish(F, hasReason, reason) ==
  End([F EXCEPT !.pendingTransactions = filterPending(@, F.txId)],
      ReturnsReceipt(F.receipt.status, hasReason, reason))

\* getRevertReason returns: to getReceipt (line 89) or to the application
rrReturn(F, str) ==
  IF F.op = "getReceipt" THEN getReceipt_Finish(F, TRUE, str)
  ELSE End(F, ReturnsString(str))

\* getRevertReason throws; the catch of getReceipt (line 99) rethrows it
rrThrow(F, e) == End(F, Throws(e))

(***************************************************************************)
(* getRevertReason, stages 5 and 6                                         *)
(***************************************************************************)
\* the catch of lines 160-162: the message of what is thrown for a caught err
stage5Catch_raw(err) == err
stage5Catch(err) == "Unable to decode revert reason."

stage5_Throw(F, err) == rrThrow([F EXCEPT !.rr.caught = err], stage5Catch(err))

\* getCode once provider.call has settled with answer a
\* (line 290 parses err.responseText; without one, JSON.parse throws)
getCodeResult(a, network) ==
  IF a.t = "ok" THEN [ok |-> TRUE, code |-> a.s, err |-> ""]
  ELSE IF network # S_kovan THEN [ok |-> FALSE, code |-> << >>, err |-> "ProviderError"]
  ELSE IF a.flag THEN [ok |-> TRUE, code |-> substr(a.s, ParityPrefixLen), err |-> ""]
  ELSE [ok |-> FALSE, code |-> << >>, err |-> "SyntaxError"]

\* line 157
stage5_Begin(F) ==
  AwaitRR(F, Op("getTransaction", "main", F.rr.provider, "none", BlkLatest), "getTx")

\* line 158: the transaction is fetched (or the fetch threw), getCode is called
stage5_AfterGetTx(F, a) ==
  IF a.t = "throw" THEN stage5_Throw(F, "ProviderError")
  ELSE AwaitRR([F EXCEPT !.rr.tx = a.t],
               Op("call", "main", F.rr.provider, a.t, F.rr.blockNumber),
               "code")

\* lines 158-162: getCode settles, decodeMessage runs
stage5_AfterCall(F, a) ==
  LET r == getCodeResult(a, F.rr.network)
      d == decodeMessage(r.code, F.rr.network)
      F1 == [F EXCEPT !.rr.code = r.code]
  IN IF ~r.ok THEN stage5_Throw(F, r.err)
     ELSE IF ~d.ok THEN stage5_Throw(F1, "Utf8Error")
     ELSE rrReturn(F1, d.s)

(***************************************************************************)
(* getRevertReason, stage 4: validateInputPostProvider                     *)
(***************************************************************************)
\* line 218
isFutureBlock_gt(blockNumber, currentBlockNumber) == blockNumber > currentBlockNumber
isFutureBlock(blockNumber, currentBlockNumber) == blockNumber >= currentBlockNumber
\* line 225
needsArchive_le(blockNumber, currentBlockNumber) ==
  blockNumber <= currentBlockNumber - ArchiveWindow
needsArchive(blockNumber, currentBlockNumber) ==
  blockNumber < currentBlockNumber - ArchiveWindow

\* lines 213-215
vipp_BlockCheck(F) ==
  IF F.rr.blockNumber.tag # "latest"
  THEN AwaitRR(F, Op("getBlockNumber", "main", F.rr.provider, "none", BlkLatest),
               "blockNumber")
  ELSE stage5_Begin(F)

\* lines 202-204
vipp_Begin(F) ==
  IF F.rr.network = S_kovan
  THEN AwaitRR(F, Op("getTransaction", "main", F.rr.provider, "none", BlkLatest),
               "probeTx")
  ELSE vipp_BlockCheck(F)

\* lines 204-211: the probe's getTransaction settled; getCode is called and
\* its promise dropped, so provider.call is issued and nothing waits for it
vipp_AfterProbeTx(F, a) ==
  IF a.t = "throw"
  THEN rrThrow(F,
         "Please use a provider that exposes the Parity trace methods to decode the revert reason.")
  ELSE LET o == Op("call", "trial", F.rr.provider, a.t, F.rr.blockNumber)
       IN vipp_BlockCheck(
            [F EXCEPT !.outstanding = @ \cup {o}, !.trial = "outstanding",
                      !.frame.issued = TRUE,
                      !.rrLog = Append(@, [kind |-> o.kind, owner |-> o.owner])])

\* lines 215-240; Number(blockNumber) is NaN for a tag, and NaN compares false
vipp_AfterBlockNumber(F, a) ==
  IF a.t = "throw" THEN rrThrow(F, "ProviderError")
  ELSE LET F1 == [F EXCEPT !.rr.currentBlockNumber = a.n]
           b == F.rr.blockNumber
       IN IF b.tag = "num" /\ isFutureBlock(b.n, a.n)
          THEN rrThrow(F1, "You cannot use a blocknumber that has not yet happened.")
          ELSE IF b.tag = "num" /\ needsArchive(b.n, a.n)
          THEN AwaitRR(F1, Op("getBalance", "main", F.rr.provider, "none", b), "balance")
          ELSE stage5_Begin(F1)

\* lines 228-238: JSON.parse of a missing responseText throws inside the catch
vipp_AfterBalance(F, a) ==
  IF a.t = "throw" /\ ~a.flag THEN rrThrow(F, "SyntaxError")
  ELSE IF a.t = "throw"
  THEN LET F1 == [F EXCEPT !.rr.errCode = a.n]
       IN IF a.n = infuraErrCode
          THEN rrThrow(F1,
                 "You cannot use a blocknumber that is older than 128 blocks. Please use a provider that uses a full archival node.")
          ELSE stage5_Begin(F1)
  ELSE stage5_Begin(F)

\* the dropped promise of the probe's getCode settles
trial_Settled(F, a, terminate) ==
  IF getCodeResult(a, S_kovan).ok THEN [F EXCEPT !.trial = "returned"]
  ELSE IF terminate
  THEN [F EXCEPT !.trial = "threw", !.unhandled = TRUE, !.pc = "crashed",
                 !.outstanding = {}, !.ready = {}]
  ELSE [F EXCEPT !.trial = "threw", !.unhandled = TRUE]

(***************************************************************************)
(* getRevertReason, stages 1-3                                             *)
(***************************************************************************)
\* lines 145-154
getRevertReason_Begin(F, txHash, network, blockNumber) ==
  LET norm == normalizeInput(network, blockNumber)
      v == validateInputPreProvider(txHash, norm.network)
      F1 == [F EXCEPT !.rr = [NoRR EXCEPT !.active = TRUE, !.txHash = txHash,
                                          !.networkArg = network,
                                          !.network = norm.network,
                                          !.blockNumber = norm.blockNumber],
                      !.rrLog = << >>, !.trial = "none"]
  IN IF v # "ok" THEN rrThrow(F1, v)
     ELSE vipp_Begin([F1 EXCEPT !.rr.provider = getProvider(norm.network)])

(***************************************************************************)
(* getReceipt, first half                                                  *)
(***************************************************************************)
\* line 85
getReceipt_Poll(F) ==
  Await(F, Op("getTransactionReceipt", "main", minedOn, "none", BlkLatest), "receipt")

getReceipt_Begin(F, id) == getReceipt_Poll([F EXCEPT !.txId = id])

\* an absent receipt is returned like a successful one
getReceipt_AfterReceipt_noWait(F, a) ==
  IF a.t = "throw" THEN End(F, Throws("ProviderError"))
  ELSE LET F1 == [F EXCEPT !.receipt = [present |-> a.t # "null", status |-> a.flag,
                                        transactionHash |-> F.txId]]
       IN IF a.flag = FALSE /\ a.t # "null"
          THEN getRevertReason_Begin(F1, F1.receipt.transactionHash, S_ropsten, BlkUndefined)
          ELSE getReceipt_Finish(F1, FALSE, << >>)
\* lines 86-93, and the catch of line 99
getReceipt_AfterReceipt(F, a) ==
  IF a.t = "throw" THEN End(F, Throws("ProviderError"))
  ELSE IF a.t = "null" THEN getReceipt_Poll([F EXCEPT !.frame.repolled = TRUE])
  ELSE LET F1 == [F EXCEPT !.receipt = [present |-> TRUE, status |-> a.flag,
                                        transactionHash |-> F.txId]]
       IN IF a.flag = FALSE
          THEN getRevertReason_Begin(F1, F1.receipt.transactionHash, S_ropsten, BlkUndefined)
          ELSE getReceipt_Finish(F1, FALSE, << >>)

(***************************************************************************)
(* transaction                                                             *)
(***************************************************************************)
\* line 29, line 52: const data = this.encodeMethod(method, ...args)
encodeStep(F, method, args) ==
  LET e == encodeMethod(method, args)
  IN [F EXCEPT !.frame.method = method, !.frame.args = args, !.frame.encoded = e.ok,
               !.frame.data = e.selector, !.frame.lookups = e.lookups]

\* lines 51-59
transaction_Begin(F, method, args) ==
  LET F1 == encodeStep(F, method, args)
  IN IF ~F1.frame.encoded THEN End(F1, Throws("No ABI found"))
     ELSE Await(F1, Op("estimateGas", "main", minedOn, "none", BlkLatest), "estimateGas")

\* lines 28-34: encode, then await eth.call; the catch of line 40 rethrows
call_Begin(F, method, args) ==
  LET F1 == encodeStep(F, method, args)
  IN IF ~F1.frame.encoded THEN End(F1, Throws("No ABI found"))
     ELSE Await(F1, Op("eth_call", "main", minedOn, "none", BlkLatest), "call")

\* the result is decoded whatever it is
call_AfterCall_decodeAll(F, a) ==
  IF a.t = "throw" THEN End(F, Throws("ProviderError"))
  ELSE LET d == decodeOutput(F.frame.method, a.s)
           F1 == [F EXCEPT !.frame.hasResult = TRUE, !.frame.result = a.s,
                           !.frame.outLookups = d.lookups, !.frame.decodes = d.decodes]
       IN IF d.result.ok THEN End(F1, ReturnsDecoded(d.result.values))
          ELSE End(F1, Throws(d.result.message))
\* lines 34-39
call_AfterCall(F, a) ==
  IF a.t = "throw" THEN End(F, Throws("ProviderError"))
  ELSE IF a.s = S_0x
  THEN End([F EXCEPT !.frame.hasResult = TRUE, !.frame.result = a.s], ReturnsNull)
  ELSE LET d == decodeOutput(F.frame.method, a.s)
           F1 == [F EXCEPT !.frame.hasResult = TRUE, !.frame.result = a.s,
                           !.frame.outLookups = d.lookups, !.frame.decodes = d.decodes]
       IN IF d.result.ok THEN End(F1, ReturnsDecoded(d.result.values))
          ELSE End(F1, Throws(d.result.message))

\* lines 65-67
onTransactionHash(F, hash) == [F EXCEPT !.resultHash = [set |-> TRUE, hash |-> hash]]
\* lines 68-70: the throw leaves the listener.  Under a listener the stream
\* calls while it is being registered (inside the try) that is the catch of
\* line 77; under a listener the event loop calls it is the host
onError(F, registering) ==
  IF registering THEN End(F, Throws("SubmissionError"))
  ELSE [F EXCEPT !.unhandled = TRUE]

\* lines 59-72: sendTransaction is called, the listeners are registered, and
\* the function enters its loop without suspending.  emit is what the stream
\* delivers while the listeners are registered: web3 delivers nothing then
\* ("later"); a caller-supplied web3Instance may
transaction_AfterEstimateGas(F, a, emit) ==
  IF a.t = "throw" THEN End(F, Throws("ProviderError"))
  ELSE IF emit.t = "hash"
  THEN onTransactionHash([F EXCEPT !.pc = "tx_loop"], emit.s)
  ELSE IF emit.t = "error" THEN onError(F, TRUE)
  ELSE [F EXCEPT !.outstanding = @ \cup {Op("sendTransaction", "stream", minedOn,
                                            "none", BlkLatest)},
                 !.pc = "tx_loop"]

\* lines 72-76, one iteration
transaction_Loop(F) ==
  IF ~F.resultHash.set \/ F.resultHash.hash = << >> THEN F
  ELSE End([F EXCEPT !.pendingTransactions = Append(@, F.resultHash.hash)],
           ReturnsHash(F.resultHash.hash))

(***************************************************************************)
(* The node: what it can answer to an operation                            *)
(***************************************************************************)
A_ok == Ans("ok", 0, << >>, FALSE)
A_null == Ans("null", 0, << >>, FALSE)
A_tx == Ans("tx", 0, << >>, FALSE)
\* a rejection without a parseable responseText
A_throw == Ans("throw", 0, << >>, FALSE)

\* what a submission stream emits
StreamEvents ==
  {Ans("hash", 0, h, FALSE) : h \in Hashes} \cup {Ans("error", 0, << >>, FALSE)}
A_later == Ans("later", 0, << >>, FALSE)

Answers(o) ==
  CASE o.kind = "estimateGas" -> {A_ok, A_throw}
    [] o.kind = "sendTransaction" -> StreamEvents
    [] o.kind = "eth_call" -> {Ans("ok", 0, p, FALSE) : p \in CallReturns} \cup {A_throw}
    [] o.kind = "getTransactionReceipt" ->
         {A_null, A_throw, Ans("receipt", 0, << >>, TRUE), Ans("receipt", 0, << >>, FALSE)}
    [] o.kind = "getTransaction" ->
         \* a chain knows the transactions mined on it
         IF o.net = minedOn THEN {A_tx, A_null, A_throw} ELSE {A_null, A_throw}
    [] o.kind = "getBlockNumber" ->
         {Ans("ok", h, << >>, FALSE) : h \in Heights} \cup {A_throw}
    [] o.kind = "getBalance" ->
         {A_ok, A_throw, Ans("throw", infuraErrCode, << >>, TRUE),
          Ans("throw", 0 - 32000, << >>, TRUE)}
    [] o.kind = "call" ->
         \* ethers dereferences the transaction request: a null one rejects
         IF o.tx = "null" THEN {A_throw}
         ELSE {Ans("ok", 0, p, FALSE) : p \in ReplayPayloads} \cup {A_throw} \cup
              (IF o.net = S_kovan
               THEN {Ans("throw", 0, S_Reverted \o p, TRUE) : p \in ReplayPayloads}
               ELSE {})

(***************************************************************************)
(* Actions                                                                 *)
(***************************************************************************)
Init ==
  /\ pendingTransactions = << >>
  /\ pc = "idle"
  /\ op = "none"
  /\ outcome = NoOutcome
  /\ outstanding = {}
  /\ ready = {}
  /\ resultHash = NoResultHash
  /\ txId = << >>
  /\ receipt = NoReceipt
  /\ rr = NoRR
  /\ rrLog = << >>
  /\ trial = "none"
  /\ unhandled = FALSE
  /\ minedOn \in BoundNetworks
  /\ frame = NoFrame
  /\ dec = NoDec

\* the application calls an operation when no other one is running
CanStart == pc = "idle"

\* the awaiting caller takes the result of the operation that ended; the
\* dropped promise of the kovan probe, if any, has settled by then
CallerResumes ==
  /\ pc = "done"
  /\ outstanding = {}
  /\ ready = {}
  /\ Apply([Fresh("none") EXCEPT !.pc = "idle"])

StartTransaction ==
  /\ CanStart
  /\ Len(pendingTransactions) < MaxPending
  /\ \E method \in Methods, args \in ArgLists :
       Apply(transaction_Begin(Fresh("transaction"), method, args))

StartCall ==
  /\ CanStart
  /\ \E method \in Methods, args \in ArgLists :
       Apply(call_Begin(Fresh("call"), method, args))

StartGetReceipt ==
  /\ CanStart
  /\ \E id \in Hashes : Apply(getReceipt_Begin(Fresh("getReceipt"), id))

StartGetRevertReason ==
  /\ CanStart
  /\ \E txHash \in TxHashInputs, network \in NetworkInputs, blockNumber \in BlockInputs :
       Apply(getRevertReason_Begin(Fresh("getRevertReason"), txHash, network, blockNumber))

\* the node answers an operation; the answer waits for the event loop
ProviderResponds ==
  /\ pc # "crashed"
  /\ \E o \in outstanding :
       \E a \in Answers(o) :
         /\ outstanding' = outstanding \ {o}
         /\ ready' = ready \cup {[op |-> o, answer |-> a]}
         /\ UNCHANGED << pendingTransactions, pc, op, outcome, resultHash, txId,
                         receipt, rr, rrLog, trial, unhandled, minedOn, frame, dec >>

\* what the host and a caller-supplied stream decide during a turn: whether an
\* unhandled rejection terminates the process, and what the stream emits
\* while its listeners are registered
HostChoices == [terminate : BOOLEAN, emit : StreamEvents \cup {A_later}]

\* the continuation or listener a settled operation resumes
Dispatch(F, c, host) ==
  CASE c.op.owner = "trial" -> trial_Settled(F, c.answer, host.terminate)
    [] c.op.owner = "stream" ->
         IF c.answer.t = "hash" THEN onTransactionHash(F, c.answer.s)
         ELSE onError(F, FALSE)
    [] c.op.owner = "main" /\ F.pc = "estimateGas" ->
         transaction_AfterEstimateGas(F, c.answer, host.emit)
    [] c.op.owner = "main" /\ F.pc = "call" -> call_AfterCall(F, c.answer)
    [] c.op.owner = "main" /\ F.pc = "receipt" -> getReceipt_AfterReceipt(F, c.answer)
    [] c.op.owner = "main" /\ F.pc = "probeTx" -> vipp_AfterProbeTx(F, c.answer)
    [] c.op.owner = "main" /\ F.pc = "blockNumber" -> vipp_AfterBlockNumber(F, c.answer)
    [] c.op.owner = "main" /\ F.pc = "balance" -> vipp_AfterBalance(F, c.answer)
    [] c.op.owner = "main" /\ F.pc = "getTx" -> stage5_AfterGetTx(F, c.answer)
    [] c.op.owner = "main" /\ F.pc = "code" -> stage5_AfterCall(F, c.answer)

\* no synchronous code is running, so the event loop can take a task
ThreadIdle == pc \notin {"tx_loop", "crashed"}

\* one turn of the event loop: a settled operation resumes what waits for it
EventLoopTurn ==
  /\ ThreadIdle
  /\ \E c \in ready :
       \E host \in HostChoices :
         /\ host.terminate => (c.op.owner = "trial" /\ ~getCodeResult(c.answer, S_kovan).ok)
         /\ host.emit # A_later => (c.op.kind = "estimateGas" /\ c.answer.t = "ok")
         /\ Apply(Dispatch([Cur EXCEPT !.ready = @ \ {c}], c, host))

\* one iteration of the wait loop of transaction()
TransactionLoop ==
  /\ pc = "tx_loop"
  /\ Apply(transaction_Loop(Cur))

Next ==
  \/ StartCall
  \/ StartTransaction
  \/ StartGetReceipt
  \/ StartGetRevertReason
  \/ CallerResumes
  \/ ProviderResponds
  \/ EventLoopTurn
  \/ TransactionLoop

Spec == Init /\ [][Next]_vars

\* the public operations only: getRevertReason is protected, and reached
\* through getReceipt
ClientNext ==
  \/ StartCall
  \/ StartTransaction
  \/ StartGetReceipt
  \/ CallerResumes
  \/ ProviderResponds
  \/ EventLoopTurn
  \/ TransactionLoop

\* the host runs what can run, and the node answers what it was asked
FairClientSpec == Init /\ [][ClientNext]_vars /\ WF_vars(ClientNext)

TypeOK ==
  /\ pc \in {"idle", "call", "estimateGas", "tx_loop", "receipt", "probeTx", "blockNumber",
             "balance", "getTx", "code", "done", "crashed"}
  /\ op \in {"none", "call", "transaction", "getReceipt", "getRevertReason"}
  /\ outcome.kind \in {"none", "return", "throw"}
  /\ trial \in {"none", "outstanding", "returned", "threw"}
  /\ Len(pendingTransactions) <= MaxPending

(***************************************************************************)
(* Properties                                                              *)
(***************************************************************************)
\* getRevertReason checked an explicitly requested block number against the
\* height getBlockNumber returned
BlockChecked ==
  /\ rr.active
  /\ rr.blockNumber.tag = "num"
  /\ rr.currentBlockNumber # NaN
\* positions of rrLog at which a replay (provider.call) was issued
Replays == {i \in 1..Len(rrLog) : rrLog[i].kind = "call"}
Canaries == {i \in 1..Len(rrLog) : rrLog[i].kind = "getBalance"}
Failed(kind) == outcome.kind = "throw" /\ outcome.error = kind
Ended == outcome.kind # "none"

\* C1 as stated: on every network, kovan included, an explicitly requested
\* block number at or above the current height makes getRevertReason fail with
\* FutureBlockError, and no replay was issued before that failure.
C1_AsStated ==
  (BlockChecked /\ rr.blockNumber.n >= rr.currentBlockNumber)
    => (Failed("FutureBlockError") /\ Replays = {})

\* C1 amended: an explicitly requested block number at or above the height
\* that getBlockNumber returns makes getRevertReason fail with
\* FutureBlockError; by then no replay was issued on the networks other than
\* kovan, and on kovan exactly one, the trial replay of the post-provider
\* validation.
C1_FutureBlock ==
  (BlockChecked /\ rr.blockNumber.n >= rr.currentBlockNumber)
    => /\ Failed("FutureBlockError")
       /\ IF rr.network = S_kovan
          THEN Cardinality(Replays) = 1 /\ \A i \in Replays : rrLog[i].owner = "trial"
          ELSE Replays = {}

C1_Witness ==
  /\ BlockChecked
  /\ rr.blockNumber.n = rr.currentBlockNumber
  /\ rr.network = S_kovan
  /\ Failed("FutureBlockError")
  /\ Replays # {}

\* C2: on kovan, when the trial replay of the post-provider validation throws,
\* getRevertReason fails with UnsupportedProviderError: it neither returns a
\* string nor fails with another kind of error.
C2_TrialThrowIsUnsupported ==
  (rr.active /\ rr.network = S_kovan /\ trial = "threw" /\ Ended)
    => Failed("UnsupportedProviderError")

\* C3: once getReceipt(txId) has retrieved a receipt and has ended, however it
\* ended, txId is not in pendingTransactions.
C3_ReceiptPrunes ==
  (op = "getReceipt" /\ receipt.present /\ Ended)
    => ~includes(pendingTransactions, txId)

\* the submission stream has emitted this event and the listener has not run
StreamEmitted(e) ==
  \E c \in ready : c.op.owner = "stream" /\ c.answer = e

\* C4: when gas estimation succeeded and the submission stream emits a
\* transaction-hash event carrying h, transaction() eventually returns h,
\* with h in pendingTransactions.
C4_HashLeadsToReturn ==
  \A h \in Hashes :
    StreamEmitted(Ans("hash", 0, h, FALSE))
      ~> (/\ op = "transaction"
          /\ outcome.kind = "return"
          /\ outcome.hash = h
          /\ includes(pendingTransactions, h))

\* C5: when the submission stream emits an error event, transaction() ends
\* with that error instead of waiting on.
C5_ErrorLeadsToThrow ==
  StreamEmitted(Ans("error", 0, << >>, FALSE))
    ~> (op = "transaction" /\ Failed("SubmissionError"))

\* the strings whose Error(string) encoding the node of the model returns
RevertStrings == { <<104, 105>>, <<79, 48>> }

\* C6: for a receipt with failure status, the replay of revert resolution
\* addresses the chain the client is bound to, where the transaction was
\* mined, and when the replay returns the Error(string) encoding of s,
\* getReceipt returns the receipt with revertReason s.
C6_ReceiptRevertReason ==
  (op = "getReceipt" /\ receipt.present /\ ~receipt.status /\ Ended)
    => /\ rr.provider = minedOn
       /\ \A str \in RevertStrings :
            rr.code = ErrorStringPayload(str)
              => (outcome.kind = "return" /\ outcome.hasReason /\ outcome.reason = str)

\* C7: for an explicitly requested block b below the height h: when
\* h - b <= 128 no canary balance query is made and the run does not fail with
\* ArchiveRequiredError; when h - b > 128 and the canary query fails with code
\* -32002 the run fails with ArchiveRequiredError and issues no replay after
\* the canary query.
C7_ArchiveWindow ==
  (BlockChecked /\ rr.blockNumber.n < rr.currentBlockNumber)
    => /\ (rr.currentBlockNumber - rr.blockNumber.n <= 128)
            => (Canaries = {} /\ ~Failed("ArchiveRequiredError"))
       /\ (rr.currentBlockNumber - rr.blockNumber.n > 128 /\ rr.errCode = 0 - 32002)
            => /\ Failed("ArchiveRequiredError")
               /\ Canaries # {}
               /\ \A i \in Replays : \A j \in Canaries : i < j

C7_Witness ==
  /\ BlockChecked
  /\ rr.currentBlockNumber - rr.blockNumber.n > 128
  /\ rr.errCode = 0 - 32002
  /\ rr.network = S_kovan
  /\ Failed("ArchiveRequiredError")

\* 0x followed by exactly 64 hexadecimal characters of either case
WellFormedHash(str) ==
  /\ Len(str) = 66
  /\ str[1] = 48 /\ str[2] = 120
  /\ \A i \in 3..66 :
       str[i] \in (48..57) \cup (97..102) \cup (65..70)

\* C8: pre-provider validation accepts the transaction hash exactly when it is
\* 0x followed by 64 hex characters; for every other string getRevertReason
\* fails with InvalidInputError.
C8_HashValidation ==
  (rr.active /\ op = "getRevertReason")
    => /\ WellFormedHash(rr.txHash) => outcome.message # "Invalid transaction hash"
       /\ ~WellFormedHash(rr.txHash)
            => (Failed("InvalidInputError") /\ outcome.message = "Invalid transaction hash")

C8_Witness ==
  /\ rr.active /\ op = "getRevertReason"
  /\ rr.txHash = ValidHashB
  /\ Len(rrLog) > 0

SupportedNetwork == {S_mainnet, S_kovan, S_goerli, S_ropsten, S_rinkeby}

\* C9: with a valid hash, getRevertReason passes pre-provider validation
\* exactly when the lower-cased network identifier is a supported network;
\* otherwise it fails with InvalidInputError with no provider acquired and no
\* provider operation issued.
C9_NetworkValidation ==
  (rr.active /\ op = "getRevertReason" /\ WellFormedHash(rr.txHash))
    => IF toLowerCase(rr.networkArg) \in SupportedNetwork
       THEN ~Failed("InvalidInputError") /\ rr.provider = toLowerCase(rr.networkArg)
       ELSE Failed("InvalidInputError") /\ rr.provider = << >> /\ rrLog = << >>

C9_Witness ==
  /\ rr.active /\ op = "getRevertReason"
  /\ rr.networkArg = S_KOVAN
  /\ Len(rrLog) > 0

\* C10: an exception raised while the transaction is re-fetched, replayed or
\* decoded reaches the caller as DecodeFailure and never as the error that
\* was raised; a failure of the validation stages is never reported as
\* DecodeFailure.
C10_DecodeFailureWraps ==
  rr.active
    => /\ rr.caught # "" => Failed("DecodeFailure")
       /\ Failed("DecodeFailure")
            => (rr.caught # "" /\ \E i \in 1..Len(rrLog) :
                                     rrLog[i] = [kind |-> "getTransaction", owner |-> "main"]
                                     /\ \A j \in (i + 1)..Len(rrLog) : rrLog[j].kind = "call")

C10_Witness ==
  /\ rr.active
  /\ rr.caught = "Utf8Error"
  /\ Failed("DecodeFailure")

\* the error kinds of the specification's taxonomy that getRevertReason produces
TypedErrorKinds ==
  { "InvalidInputError", "UnsupportedProviderError", "FutureBlockError",
    "ArchiveRequiredError", "DecodeFailure" }

\* C11: every failing run of getRevertReason ends with one of the typed error
\* kinds, whatever the provider does.
C11_TypedFailures ==
  (rr.active /\ op = "getRevertReason" /\ outcome.kind = "throw")
    => outcome.error \in TypedErrorKinds

(***************************************************************************)
(* decodeMessage on its own, over bounded revert strings                    *)
(***************************************************************************)
\* code points of the revert strings: NUL, "0", "a", e-acute
TextAlphabet == {0, 48, 97, 233}
Texts == UNION {[1..n -> TextAlphabet] : n \in 0..MaxStrLen}
\* the UTF-8 bytes of a string of code points below 2048
Utf8Bytes(text) ==
  LET width(c) == IF c < 128 THEN 1 ELSE 2
      start(k) == k + Cardinality({j \in 1..(k - 1) : text[j] >= 128})
      total == Len(text) + Cardinality({j \in 1..Len(text) : text[j] >= 128})
  IN [i \in 1..total |->
        LET k == CHOOSE k \in 1..Len(text) : start(k) <= i /\ i < start(k) + width(text[k])
            c == text[k]
        IN IF c < 128 THEN c
           ELSE IF i = start(k) THEN 192 + (c \div 64) ELSE 128 + (c % 64)]
\* how the node lays the string out after the length word
Layouts == {"padded", "bare", "junk", "truncated"}
\* ff
S_junk == <<102, 102>>
\* the payload of Error(text) in one of the layouts
PayloadOf(text, layout) ==
  LET bytes == Utf8Bytes(text)
      head == S_0x \o S_selector \o HexWord(32) \o HexWord(Len(bytes))
      data == HexBytes(bytes)
  IN CASE layout = "padded" -> ErrorStringPayload(bytes)
       [] layout = "bare" -> head \o data
       [] layout = "junk" -> head \o data \o S_junk
       [] OTHER -> head \o SubSeq(data, 1, IF Len(data) = 0 THEN 0 ELSE Len(data) - 1)
DecNetworks == {S_kovan, S_mainnet}

DecodeInit ==
  /\ pendingTransactions = << >>
  /\ pc = "idle"
  /\ op = "none"
  /\ outcome = NoOutcome
  /\ outstanding = {}
  /\ ready = {}
  /\ resultHash = NoResultHash
  /\ txId = << >>
  /\ receipt = NoReceipt
  /\ rr = NoRR
  /\ rrLog = << >>
  /\ trial = "none"
  /\ unhandled = FALSE
  /\ minedOn = S_mainnet
  /\ frame = NoFrame
  /\ \E text \in Texts, layout \in Layouts, network \in DecNetworks :
       dec = [NoDec EXCEPT !.phase = "input", !.text = text, !.layout = layout,
                           !.network = network, !.code = PayloadOf(text, layout)]

\* one call decodeMessage(code, network), its locals recorded
DecodeMessage ==
  /\ dec.phase = "input"
  /\ LET codeString == codeStringOf(dec.code, dec.network)
         handed == padOdd(codeString)
     IN dec' = [dec EXCEPT !.phase = "decoded", !.codeString = codeString,
                           !.handed = handed, !.err = arrayifyError(handed),
                           !.result = decodeMessage(dec.code, dec.network)]
  /\ UNCHANGED << pendingTransactions, pc, op, outcome, outstanding, ready, resultHash,
                  txId, receipt, rr, rrLog, trial, unhandled, minedOn, frame >>

DecodeSpec == DecodeInit /\ [][DecodeMessage]_vars

\* C12: on a network other than kovan, decodeMessage returns s for the well-formed
\* payload of Error(s), for every string s.
C12_RoundTrip ==
  (dec.phase = "decoded" /\ dec.network # S_kovan /\ dec.layout = "padded")
    => dec.result = DecOk(dec.text)

\* C12 as the code has it: on a network other than kovan, decodeMessage returns s
\* for the well-formed payload of Error(s), for every string s that does not end
\* with a NUL character (trailing zero bytes are stripped with the padding).
C12_RoundTripNoTrailingNul ==
  (/\ dec.phase = "decoded" /\ dec.network # S_kovan /\ dec.layout = "padded"
   /\ (dec.text = << >> \/ dec.text[Len(dec.text)] # 0))
    => dec.result = DecOk(dec.text)
\* a two-byte character and a "0", whose hex ends with a zero digit, came back
C12_Witness ==
  /\ dec.phase = "decoded" /\ dec.network # S_kovan /\ dec.layout = "padded"
  /\ dec.text = <<233, 48>>
  /\ dec.result = DecOk(dec.text)

\* C13: an odd number of hex digits is padded with one "0" on both branches, so
\* the decoder never raises for an odd length.
C13_OddLengthPadded ==
  dec.phase = "decoded" =>
    /\ Len(dec.handed) % 2 = 0
    /\ dec.handed = IF Len(dec.codeString) % 2 = 1
                    THEN dec.codeString \o <<48>> ELSE dec.codeString
    /\ dec.err # "hex data is odd-length"
\* the kovan branch cut an odd number of digits, and the padded string decoded
C13_Witness ==
  /\ dec.phase = "decoded"
  /\ Len(dec.codeString) % 2 = 1
  /\ dec.result.ok
  /\ dec.network = S_kovan

\* C19: on kovan decodeMessage returns the UTF-8 decoding of exactly the L bytes
\* the length word announces, whether zero padding, non-zero bytes or nothing
\* follows them.
C19_KovanExactLength ==
  (/\ dec.phase = "decoded" /\ dec.network = S_kovan
   /\ dec.layout \in {"padded", "junk", "bare"})
    => /\ dec.codeString = S_0x \o HexBytes(Utf8Bytes(dec.text))
       /\ dec.result = DecOk(dec.text)
\* a string ending in NUL, followed by non-zero bytes, came back whole
C19_Witness ==
  /\ dec.phase = "decoded" /\ dec.network = S_kovan /\ dec.layout = "junk"
  /\ dec.text = <<97, 0>>
  /\ dec.result = DecOk(dec.text)

\* call() has received the raw return of eth.call and ended
CallAnswered == op = "call" /\ pc = "done" /\ frame.hasResult
\* the ABI entry decodeOutput resolves for the method of the frame
ResolvedEntry == findInABI(frame.method.name, frame.method.abi)

\* C14: call returns null when the raw return is exactly 0x, without a lookup of
\* the ABI entry and without decodeParameters, hence without NotFoundError or
\* SchemaError; any other raw return is decoded against the declared outputs.
C14_EmptyReturnIsNull ==
  CallAnswered =>
    IF frame.result = S_0x
    THEN /\ outcome = ReturnsNull
         /\ frame.outLookups = 0
         /\ frame.decodes = 0
    ELSE /\ frame.outLookups = 1
         /\ outcome.value # "null"
         /\ (ResolvedEntry.found /\ ResolvedEntry.item.outputs.defined) =>
              /\ frame.decodes = 1
              /\ outcome.kind = "return" =>
                   /\ outcome.value = "decoded"
                   /\ Len(outcome.values) = ResolvedEntry.item.outputs.n
\* 0x came back for a method that has no ABI entry, and call returned null
C14_Witness ==
  /\ CallAnswered
  /\ frame.result = S_0x
  /\ ~ResolvedEntry.found
  /\ outcome = ReturnsNull

\* C15: when the raw return is not 0x and the resolved ABI entry declares no
\* outputs (the field is missing or is the empty list), call fails with
\* SchemaError.
C15_NoOutputsIsSchemaError ==
  (/\ CallAnswered
   /\ frame.result # S_0x
   /\ ResolvedEntry.found
   /\ (~ResolvedEntry.item.outputs.defined \/ ResolvedEntry.item.outputs.n = 0))
    => Failed("SchemaError")

\* call() or transaction() has run its encodeMethod
Encoding == op \in {"call", "transaction"}
\* C17: with no arguments encodeMethod returns the selector of method.signature
\* and never looks the method up, so it cannot fail; with arguments it looks the
\* entry up first and fails with NotFoundError when there is none, and then no
\* provider operation is issued.
C17_EncodeMethod ==
  Encoding =>
    IF frame.args = << >>
    THEN /\ frame.encoded
         /\ frame.data = frame.method.signature
         /\ frame.lookups = 0
    ELSE /\ frame.lookups = 1
         /\ ~ResolvedEntry.found =>
              /\ pc = "done"
              /\ Failed("NotFoundError")
              /\ ~frame.issued
              /\ outstanding = {}
\* a method without ABI entry was called with no arguments and eth.call was issued
C17_Witness ==
  /\ op = "call"
  /\ frame.args = << >>
  /\ ~ResolvedEntry.found
  /\ frame.issued
  /\ frame.data = "removeMe()"

\* the receipt query of getReceipt has been answered with a
ReceiptAnswered(a) ==
  \E c \in ready : c.op.kind = "getTransactionReceipt" /\ c.answer = a
\* the event loop hands the answer a of the receipt query to getReceipt
ReceiptDelivered(a) ==
  \E c \in ready : /\ c.op.kind = "getTransactionReceipt" /\ c.answer = a
                   /\ c \notin ready'
ReceiptQueried ==
  \E o \in outstanding : o.kind = "getTransactionReceipt" /\ o.owner = "main"
\* getReceipt returned a successful receipt without revert resolution
ReturnedSuccess ==
  /\ op = "getReceipt"
  /\ outcome.kind = "return"
  /\ outcome.status
  /\ ~outcome.hasReason
  /\ ~rr.active
  /\ rrLog = << >>

\* C16: getReceipt never returns on an absent receipt and queries again after
\* every absent answer; once a receipt with success status is answered, it
\* eventually returns it with revertReason absent and without revert resolution.
C16_ReceiptPolling ==
  /\ []((op = "getReceipt" /\ outcome.kind = "return") => receipt.present)
  /\ [][ReceiptDelivered(A_null) =>
          (pc' = "receipt" /\ outcome'.kind = "none" /\ ReceiptQueried')]_vars
  /\ (op = "getReceipt" /\ ReceiptAnswered(Ans("receipt", 0, << >>, TRUE)))
       ~> ReturnedSuccess
\* the receipt was absent at least once, and then came with success status
C16_Witness ==
  /\ ReturnedSuccess
  /\ frame.repolled
  /\ receipt.present

\* C18: at every point of every run at most one provider operation issued by the
\* client is outstanding, the kovan trial replay and the transaction submission
\* included.
C18_OneOutstanding == Cardinality(outstanding) <= 1

\* the running operation returns in this step
Returning(name) == op = name /\ outcome.kind = "none" /\ outcome'.kind = "return"

\* C20: pendingTransactions changes in two ways only: a returning transaction()
\* appends exactly the hash it returns, and a returning getReceipt(txId) removes
\* exactly the entries equal to txId and keeps the others in order; every
\* other step, those of call and getRevertReason included, leaves it unchanged.
C20_PendingFrame ==
  [][/\ Returning("transaction") =>
          pendingTransactions' = Append(pendingTransactions, outcome'.hash)
     /\ Returning("getReceipt") =>
          pendingTransactions' = SelectSeq(pendingTransactions, LAMBDA h : h # txId)
     /\ ~(Returning("transaction") \/ Returning("getReceipt")) =>
          pendingTransactions' = pendingTransactions]_vars
\* getReceipt returned for one hash while the other hash stays pending
C20_Witness ==
  /\ op = "getReceipt"
  /\ outcome.kind = "return"
  /\ pendingTransactions # << >>
  /\ \A i \in 1..Len(pendingTransactions) : pendingTransactions[i] # txId
====
